---- MODULE Spec2Model ----
(***************************************************************************)
(* Weisfeiler-Lehman walker of pyRDF2Vec                                   *)
(* (src/pyrdf2vec/walkers/weisfeiler_lehman.py).                           *)
(*                                                                         *)
(* Python strings are sequences of character codes, so that sorted() is    *)
(* the lexicographic order on them.  A dict is a function whose DOMAIN is  *)
(* its key set; the empty dict is <<>>.  str(md5(s.encode()).digest()) is  *)
(* modelled as a collision-free digest: the text b'...' around a payload   *)
(* that determines s.                                                      *)
(***************************************************************************)
EXTENDS Integers, Sequences, FiniteSets, TLC

VARIABLES
    constructed,     \* an engine (WLWalker) exists
    wl_iterations,   \* WLWalker.wl_iterations
    label_map,       \* WLWalker._label_map    : name -> (level -> label)
    inv_label_map,   \* WLWalker._inv_label_map: name -> (Any -> Any)
    vertices,        \* kg._vertices (names)
    edges,           \* directed edges <<u, v>> of kg
    stack,           \* activation records of _weisfeiler_lehman
    pending,         \* instances extract() still has to canonicalize
    outcome,         \* what the last call returned or raised
    mutations,       \* number of graph mutations so far
    reads,           \* number of calls that read the Label Table so far
    relabeled,       \* a pass has completed on the graph as it is now
    freshPass,       \* ... and that pass started from empty tables
    rowCount,        \* completed passes in a row with nothing in between
    snap,            \* the tables as the first pass of that row left them
    lastStep         \* the last _create_label of a pass: vertex, level, reads

vars == <<constructed, wl_iterations, label_map, inv_label_map, vertices,
          edges, stack, pending, outcome, mutations, reads, relabeled,
          freshPass, rowCount, snap, lastStep>>

(***************************************************************************)
(* Bounds.                                                                 *)
(***************************************************************************)
MaxL == 2
MaxEdges == 2
MaxMutations == 1
MaxReads == 1
MaxWalkLen == 3
MaxWalks == 2
MaxDepth == 2
MaxInstances == 1

(***************************************************************************)
(* Vertex names "a", "b" and the values offered as wl_iterations.          *)
(***************************************************************************)
Names == {<<97>>, <<98>>}

WlArguments ==
    [kind : {"int"}, val : (0 - 1)..MaxL] \cup [kind : {"str"}, val : {1}]

(***************************************************************************)
(* Strings.                                                                *)
(***************************************************************************)
Dash == 45

StrLess(s, t) ==
    \E i \in 1..Len(t) :
        /\ \A j \in 1..(i - 1) : j <= Len(s) /\ s[j] = t[j]
        /\ (i > Len(s) \/ s[i] < t[i])

RECURSIVE Join(_, _)
Join(parts, sep) ==
    IF parts = <<>> THEN <<>>
    ELSE IF Len(parts) = 1 THEN parts[1]
    ELSE parts[1] \o <<sep>> \o Join(Tail(parts), sep)

ToSet(list) == {list[i] : i \in DOMAIN list}

RECURSIVE Sorted(_)
Sorted(S) ==
    IF S = {} THEN <<>>
    ELSE LET least == CHOOSE x \in S : \A y \in S \ {x} : StrLess(x, y)
         IN <<least>> \o Sorted(S \ {least})

RECURSIVE FirstOccurrences(_)
FirstOccurrences(list) ==
    IF list = <<>> THEN <<>>
    ELSE LET init == FirstOccurrences(SubSeq(list, 1, Len(list) - 1))
             x == list[Len(list)]
         IN IF x \in ToSet(init) THEN init ELSE Append(init, x)

\* a plausible slip: deduplicated but left in enumeration order
SuffixPartsUnsorted(labels) == FirstOccurrences(labels)

SuffixParts(labels) == Sorted(ToSet(labels))

Md5Str(s) == <<98, 39>> \o s \o <<39>>

(***************************************************************************)
(* Dicts.                                                                  *)
(***************************************************************************)
EmptyDict == <<>>

DictSet(d, k, v) == [x \in DOMAIN d \cup {k} |-> IF x = k THEN v ELSE d[x]]

\* a plausible slip: dict.get(k, "") instead of d[k]
ItemGetDefault(d, k) ==
    [ok |-> TRUE, val |-> IF k \in DOMAIN d THEN d[k] ELSE <<>>]

ItemGet(d, k) ==
    [ok |-> k \in DOMAIN d, val |-> IF k \in DOMAIN d THEN d[k] ELSE <<>>]

\* defaultdict(dict).__getitem__: a missing key is inserted with an empty dict
DefaultGet(dd, k) ==
    IF k \in DOMAIN dd THEN [map |-> dd, val |-> dd[k]]
    ELSE [map |-> DictSet(dd, k, EmptyDict), val |-> EmptyDict]

\* self._label_map[name][level]: the table afterwards, whether a KeyError was
\* raised, and the label read
Lookup(lm, name, level) ==
    LET g == DefaultGet(lm, name)
        item == ItemGet(g.val, level)
    IN [map |-> g.map, ok |-> item.ok, val |-> item.val]

\* the lookups of a list comprehension, in turn, up to the first KeyError
RECURSIVE LookupAll(_, _)
LookupAll(lm, reqs) ==
    IF reqs = <<>> THEN [map |-> lm, ok |-> TRUE, vals |-> <<>>]
    ELSE LET r == Head(reqs)
             got == Lookup(lm, r[1], r[2])
         IN IF got.ok
            THEN LET rest == LookupAll(got.map, Tail(reqs))
                 IN [map |-> rest.map, ok |-> rest.ok,
                     vals |-> <<got.val>> \o rest.vals]
            ELSE [map |-> got.map, ok |-> FALSE, vals |-> <<>>]

\* the two kinds of value _inv_label_map holds (Dict[Any, Any])
IntAny(k) == <<0, k>>
StrAny(s) == <<1>> \o s

(***************************************************************************)
(* The graph collaborator (pyrdf2vec.graphs.KG) and the walk sampler       *)
(* (RandomWalker.extract_walks).                                           *)
(***************************************************************************)
WellFormed(V, E) == E \subseteq V \X V

InitGraphs ==
    {g \in [V : SUBSET Names, E : SUBSET (Names \X Names)] :
        WellFormed(g.V, g.E) /\ Cardinality(g.E) <= MaxEdges}

\* kg.get_neighbors(vertex, is_reverse=True)
Predecessors(v) == {u \in vertices : <<u, v>> \in edges}

\* the orders in which the predecessors may be handed over, a repeated one
\* included
Enumerations(S) ==
    {q \in UNION {[1..k -> S] : k \in Cardinality(S)..(Cardinality(S) + 1)} :
        ToSet(q) = S}

\* the raw walks the sampler can return for a root
Paths(root) ==
    {w \in UNION {[1..k -> Names] : k \in 1..MaxWalkLen} :
        /\ w[1] = root
        /\ \A i \in 1..(Len(w) - 1) : <<w[i], w[i + 1]>> \in edges}

WalkLists(root) ==
    UNION {[1..k -> Paths(root)] : k \in 0..MaxWalks}

(***************************************************************************)
(* _create_label                                                           *)
(***************************************************************************)
\* a plausible slip: reuse the label already stored for level n
ReadLevelCached(d, n) == IF n \in DOMAIN d THEN n ELSE n - 1

\* the level whose labels build the level-n label
ReadLevel(d, n) == n - 1

\* a plausible slip: the comparison turned round
LazyTriggerAlways(lm) == Cardinality(DOMAIN lm) >= 0

\* line 57
LazyTrigger(lm) == Cardinality(DOMAIN lm) = 0

\* lines 60-72, after the lazy trigger: the neighbours' labels are read in
\* enumeration order, then the vertex's own
CreateLabel(lm, enum, v, n) ==
    LET names == enum \o <<v>>
        reqs == [i \in DOMAIN names |->
                    <<names[i], ReadLevel(DefaultGet(lm, names[i]).val, n)>>]
        got == LookupAll(lm, reqs)
    IN [map |-> got.map,
        ok |-> got.ok,
        reads |-> ToSet(reqs),
        val |-> IF got.ok
                THEN got.vals[Len(names)] \o <<Dash>>
                     \o Join(SuffixParts(SubSeq(got.vals, 1, Len(enum))), Dash)
                ELSE <<>>]

(***************************************************************************)
(* _weisfeiler_lehman, one step per loop iteration                         *)
(***************************************************************************)
NoStep == [v |-> <<>>, n |-> 0, reads |-> {}]
NoSnap == [lm |-> EmptyDict, inv |-> EmptyDict]
NoOutcome ==
    [op |-> "none", status |-> "none", name |-> <<>>, level |-> 0,
     walks |-> <<>>, label |-> <<>>, result |-> {}, passes |-> 0]

Idle == stack = <<>> /\ pending = <<>>

NewFrame(caller) ==
    [phase |-> "init", n |-> 0, todo |-> vertices, caller |-> caller,
     passes |-> 0, written |-> {},
     fromEmpty |-> LazyTrigger(label_map)]

\* leave every loop that has no vertex left: line 88 moves to the next level,
\* line 94 to the inverse table, the end of line 96 returns
RECURSIVE Settle(_)
Settle(f) ==
    IF f.todo # {} \/ f.phase = "done" THEN f
    ELSE IF f.phase = "init"
    THEN IF 1 <= wl_iterations
         THEN Settle([f EXCEPT !.phase = "level", !.n = 1, !.todo = vertices])
         ELSE Settle([f EXCEPT !.phase = "inv", !.todo = vertices])
    ELSE IF f.phase = "level"
    THEN IF f.n + 1 <= wl_iterations
         THEN Settle([f EXCEPT !.n = f.n + 1, !.todo = vertices,
                               !.passes = f.passes + 1])
         ELSE Settle([f EXCEPT !.phase = "inv", !.todo = vertices,
                               !.passes = f.passes + 1])
    ELSE [f EXCEPT !.phase = "done"]

Top == stack[Len(stack)]
SetTop(f) == [stack EXCEPT ![Len(stack)] = Settle(f)]
Push(caller) == Append(stack, Settle(NewFrame(caller)))

\* line 85
InitLabel(lm, v) == DictSet(lm, v, DictSet(DefaultGet(lm, v).val, 0, v))

\* line 86
InitInverse(inv, v) ==
    DictSet(inv, v, DictSet(DefaultGet(inv, v).val, IntAny(0), StrAny(v)))

\* lines 95-96 for one vertex
RECURSIVE InvertInto(_, _, _)
InvertInto(d, labels, keys) ==
    IF keys = {} THEN d
    ELSE LET k == CHOOSE x \in keys : \A y \in keys : x <= y
         IN InvertInto(DictSet(d, StrAny(labels[k]), IntAny(k)), labels,
                       keys \ {k})

BuildInverse(inv, lm, v) ==
    LET labels == DefaultGet(lm, v).val
    IN DictSet(inv, v, InvertInto(DefaultGet(inv, v).val, labels, DOMAIN labels))

(***************************************************************************)
(* _extract: canonical walks of one instance                               *)
(***************************************************************************)
\* a plausible slip: the root is relabelled like every other even hop
IsIdentityPosOddOnly(i) == i % 2 = 1

\* line 149, i counted from 0
IsIdentityPos(i) == i = 0 \/ i % 2 = 1

\* lines 148-152: hops i, i + 1, ... of a walk (i counted from 0)
RECURSIVE CanonHops(_, _, _, _)
CanonHops(lm, walk, n, i) ==
    IF i >= Len(walk) THEN [map |-> lm, ok |-> TRUE, val |-> <<>>]
    ELSE LET hop == walk[i + 1]
             got == IF IsIdentityPos(i)
                    THEN [map |-> lm, ok |-> TRUE, val |-> hop]
                    ELSE Lookup(lm, hop, n)
         IN IF got.ok
            THEN LET rest == CanonHops(got.map, walk, n, i + 1)
                 IN [map |-> rest.map, ok |-> rest.ok,
                     val |-> <<got.val>> \o rest.val]
            ELSE [map |-> got.map, ok |-> FALSE, val |-> <<>>]

\* lines 146-153: walks j, j + 1, ... of the list at level n
RECURSIVE CanonWalks(_, _, _, _)
CanonWalks(lm, walks, n, j) ==
    IF j > Len(walks) THEN [map |-> lm, ok |-> TRUE, val |-> {}]
    ELSE LET one == CanonHops(lm, walks[j], n, 0)
         IN IF one.ok
            THEN LET rest == CanonWalks(one.map, walks, n, j + 1)
                 IN [map |-> rest.map, ok |-> rest.ok,
                     val |-> {one.val} \cup rest.val]
            ELSE [map |-> one.map, ok |-> FALSE, val |-> {}]

\* lines 145-153: levels n, n + 1, ..., wl_iterations
RECURSIVE CanonLevels(_, _, _)
CanonLevels(lm, walks, n) ==
    IF n > wl_iterations THEN [map |-> lm, ok |-> TRUE, val |-> {}]
    ELSE LET one == CanonWalks(lm, walks, n, 1)
         IN IF one.ok
            THEN LET rest == CanonLevels(one.map, walks, n + 1)
                 IN [map |-> rest.map, ok |-> rest.ok,
                     val |-> one.val \cup rest.val]
            ELSE [map |-> one.map, ok |-> FALSE, val |-> {}]

(***************************************************************************)
(* Initial states                                                          *)
(***************************************************************************)
Init ==
    /\ constructed = FALSE
    /\ wl_iterations = 0
    /\ label_map = EmptyDict
    /\ inv_label_map = EmptyDict
    /\ \E g \in InitGraphs : vertices = g.V /\ edges = g.E
    /\ stack = <<>>
    /\ pending = <<>>
    /\ outcome = NoOutcome
    /\ mutations = 0
    /\ reads = 0
    /\ relabeled = FALSE
    /\ freshPass = FALSE
    /\ rowCount = 0
    /\ snap = NoSnap
    /\ lastStep = NoStep

\* a call that is not a relabeling pass ends the row of passes
NotAPass ==
    /\ rowCount' = 0
    /\ snap' = NoSnap
    /\ lastStep' = NoStep

(***************************************************************************)
(* Construction (lines 31-41)                                              *)
(***************************************************************************)
\* attr.validators.instance_of(int)
Accepted(arg) == arg.kind = "int"

Construct(arg) ==
    /\ ~constructed
    /\ IF Accepted(arg)
       THEN /\ constructed' = TRUE
            /\ wl_iterations' = arg.val
            /\ outcome' = [NoOutcome EXCEPT !.op = "construct", !.status = "ok"]
       ELSE /\ UNCHANGED <<constructed, wl_iterations>>
            /\ outcome' = [NoOutcome EXCEPT !.op = "construct",
                                            !.status = "TypeError"]
    /\ label_map' = EmptyDict
    /\ inv_label_map' = EmptyDict
    /\ UNCHANGED <<vertices, edges, stack, pending, mutations, reads,
                   relabeled, freshPass, rowCount, snap, lastStep>>

(***************************************************************************)
(* Graph mutation by the caller                                            *)
(***************************************************************************)
Mutated ==
    /\ mutations' = mutations + 1
    /\ relabeled' = FALSE
    /\ freshPass' = FALSE
    /\ outcome' = NoOutcome
    /\ NotAPass
    /\ UNCHANGED <<constructed, wl_iterations, label_map, inv_label_map,
                   stack, pending, reads>>

AddVertex(v) ==
    /\ Idle /\ mutations < MaxMutations
    /\ v \notin vertices
    /\ vertices' = vertices \cup {v}
    /\ UNCHANGED edges
    /\ Mutated

RemoveVertex(v) ==
    /\ Idle /\ mutations < MaxMutations
    /\ v \in vertices
    /\ vertices' = vertices \ {v}
    /\ edges' = {e \in edges : e[1] # v /\ e[2] # v}
    /\ Mutated

AddEdge(u, v) ==
    /\ Idle /\ mutations < MaxMutations
    /\ u \in vertices /\ v \in vertices
    /\ <<u, v>> \notin edges
    /\ edges' = edges \cup {<<u, v>>}
    /\ UNCHANGED vertices
    /\ Mutated

RemoveEdge(u, v) ==
    /\ Idle /\ mutations < MaxMutations
    /\ <<u, v>> \in edges
    /\ edges' = edges \ {<<u, v>>}
    /\ UNCHANGED vertices
    /\ Mutated

(***************************************************************************)
(* Calls that start a relabeling pass                                      *)
(***************************************************************************)
StartPass(caller) ==
    /\ stack' = Push(caller)
    /\ outcome' = NoOutcome
    /\ lastStep' = NoStep
    /\ UNCHANGED <<constructed, wl_iterations, label_map, inv_label_map,
                   vertices, edges, mutations, reads, relabeled, freshPass,
                   rowCount, snap>>

\* _weisfeiler_lehman(kg) called on its own
RelabelCall ==
    /\ constructed /\ Idle
    /\ StartPass("relabel")
    /\ UNCHANGED pending

\* extract(kg, instances), line 122.  The pass does not read the instances:
\* they are drawn when it returns.
Extract ==
    /\ constructed /\ Idle
    /\ StartPass("extract")
    /\ UNCHANGED pending

\* the outcome of lines 60-72 for a caller outside a pass
CreateLabelOutcome(cl, v, n) ==
    [NoOutcome EXCEPT !.op = "_create_label",
                      !.status = IF cl.ok THEN "ok" ELSE "KeyError",
                      !.name = v, !.level = n, !.label = cl.val]

\* _create_label(kg, vertex, n) called outside a pass, lines 57-72.  The
\* lazily triggered pass does not read vertex and n: CreateLabelReturn draws
\* them when it returns.
CreateLabelCall(v, n, enum) ==
    /\ constructed /\ Idle /\ reads < MaxReads
    /\ enum \in Enumerations(Predecessors(v))
    /\ IF LazyTrigger(label_map)
       THEN /\ StartPass("create_label")
            /\ UNCHANGED pending
       ELSE LET cl == CreateLabel(label_map, enum, v, n)
            IN /\ label_map' = cl.map
               /\ outcome' = CreateLabelOutcome(cl, v, n)
               /\ reads' = reads + 1
               /\ NotAPass
               /\ UNCHANGED <<constructed, wl_iterations, inv_label_map,
                              vertices, edges, stack, pending, mutations,
                              relabeled, freshPass>>

(***************************************************************************)
(* The steps of a pass                                                     *)
(***************************************************************************)
InPass(phase) == stack # <<>> /\ Top.phase = phase

\* lines 84-86 for one vertex
InitStep(v) ==
    /\ InPass("init") /\ v \in Top.todo
    /\ label_map' = InitLabel(label_map, v)
    /\ inv_label_map' = InitInverse(inv_label_map, v)
    /\ stack' = SetTop([Top EXCEPT !.todo = @ \ {v},
                                   !.written = @ \cup {<<v, 0>>}])
    /\ UNCHANGED <<constructed, wl_iterations, vertices, edges, pending,
                   outcome, mutations, reads, relabeled, freshPass, rowCount,
                   snap, lastStep>>

\* lines 89-92 for one vertex, the call of _create_label (lines 57-72) included
LevelStep(v, enum) ==
    /\ InPass("level") /\ v \in Top.todo
    /\ enum \in Enumerations(Predecessors(v))
    /\ IF LazyTrigger(label_map) /\ Len(stack) < MaxDepth
       THEN /\ stack' = Push("_create_label")
            /\ UNCHANGED <<constructed, wl_iterations, label_map,
                           inv_label_map, vertices, edges, pending, outcome,
                           mutations, reads, relabeled, freshPass, rowCount,
                           snap, lastStep>>
       ELSE LET n == Top.n
                cl == CreateLabel(label_map, enum, v, n)
            IN /\ lastStep' = [v |-> v, n |-> n, reads |-> cl.reads]
               /\ IF cl.ok
                  THEN /\ label_map' =
                            DictSet(cl.map, v,
                                    DictSet(DefaultGet(cl.map, v).val, n,
                                            Md5Str(cl.val)))
                       /\ stack' = SetTop([Top EXCEPT
                                             !.todo = @ \ {v},
                                             !.written = @ \cup {<<v, n>>}])
                       /\ UNCHANGED <<pending, outcome, relabeled, freshPass,
                                      rowCount, snap>>
                  ELSE /\ label_map' = cl.map
                       /\ stack' = <<>>
                       /\ pending' = <<>>
                       /\ outcome' = [NoOutcome EXCEPT
                                        !.op = "_weisfeiler_lehman",
                                        !.status = "KeyError"]
                       /\ relabeled' = FALSE
                       /\ freshPass' = FALSE
                       /\ rowCount' = 0
                       /\ snap' = NoSnap
               /\ UNCHANGED <<constructed, wl_iterations, inv_label_map,
                              vertices, edges, mutations, reads>>

\* lines 94-96 for one vertex
InvStep(v) ==
    /\ InPass("inv") /\ v \in Top.todo
    /\ inv_label_map' = BuildInverse(inv_label_map, label_map, v)
    /\ stack' = SetTop([Top EXCEPT !.todo = @ \ {v}])
    /\ UNCHANGED <<constructed, wl_iterations, label_map, vertices, edges,
                   pending, outcome, mutations, reads, relabeled, freshPass,
                   rowCount, snap, lastStep>>

Caller == stack[Len(stack)].caller
Popped == SubSeq(stack, 1, Len(stack) - 1)

\* the return of _weisfeiler_lehman to extract, to an outside caller or to the
\* _create_label of an enclosing pass
PassReturn(instances) ==
    /\ InPass("done") /\ Caller # "create_label"
    /\ Len(instances) <= MaxReads - reads
    /\ stack' = Popped
    /\ pending' = IF Caller = "extract" THEN instances ELSE pending
    /\ IF Caller = "_create_label"
       THEN UNCHANGED <<outcome, relabeled, freshPass, rowCount, snap>>
       ELSE /\ outcome' = [NoOutcome EXCEPT !.op = "_weisfeiler_lehman",
                                            !.status = "ok",
                                            !.passes = Top.passes]
            /\ relabeled' = TRUE
            /\ freshPass' = Top.fromEmpty
            /\ rowCount' = IF rowCount = 0 THEN 1 ELSE 2
            /\ snap' = IF rowCount = 0
                       THEN [lm |-> label_map, inv |-> inv_label_map]
                       ELSE snap
    /\ UNCHANGED <<constructed, wl_iterations, label_map, inv_label_map,
                   vertices, edges, mutations, reads, lastStep>>

\* the return of the lazily triggered pass into _create_label, and lines 60-72
CreateLabelReturn(v, n, enum) ==
    /\ InPass("done") /\ Caller = "create_label"
    /\ enum \in Enumerations(Predecessors(v))
    /\ LET cl == CreateLabel(label_map, enum, v, n)
       IN /\ label_map' = cl.map
          /\ outcome' = CreateLabelOutcome(cl, v, n)
    /\ stack' = Popped
    /\ relabeled' = TRUE
    /\ freshPass' = Top.fromEmpty
    /\ reads' = reads + 1
    /\ NotAPass
    /\ UNCHANGED <<constructed, wl_iterations, inv_label_map, vertices,
                   edges, pending, mutations>>

(***************************************************************************)
(* Readers of the Label Table                                              *)
(***************************************************************************)
\* _extract(kg, instance), lines 143-154, for the walks the sampler returns
ExtractInstance(instance, walks) ==
    /\ constructed /\ stack = <<>> /\ reads < MaxReads
    /\ pending # <<>> => instance = Head(pending)
    /\ walks \in WalkLists(instance)
    /\ LET c == CanonLevels(label_map, walks, 0)
       IN /\ label_map' = c.map
          /\ outcome' = [NoOutcome EXCEPT
                           !.op = "_extract",
                           !.status = IF c.ok THEN "ok" ELSE "KeyError",
                           !.name = instance, !.walks = walks,
                           !.result = c.val]
          /\ pending' = IF pending # <<>> /\ c.ok THEN Tail(pending) ELSE <<>>
    /\ reads' = reads + 1
    /\ NotAPass
    /\ UNCHANGED <<constructed, wl_iterations, inv_label_map, vertices,
                   edges, stack, mutations, relabeled, freshPass>>

\* self._label_map[name][level] read by a consumer
LabelOf(v, n) ==
    /\ constructed /\ Idle /\ reads < MaxReads
    /\ LET got == Lookup(label_map, v, n)
       IN /\ label_map' = got.map
          /\ outcome' = [NoOutcome EXCEPT
                           !.op = "label_of",
                           !.status = IF got.ok THEN "ok" ELSE "KeyError",
                           !.name = v, !.level = n, !.label = got.val]
    /\ reads' = reads + 1
    /\ NotAPass
    /\ UNCHANGED <<constructed, wl_iterations, inv_label_map, vertices,
                   edges, stack, pending, mutations, relabeled, freshPass>>

(***************************************************************************)
(* Specification                                                           *)
(***************************************************************************)
InstanceLists == UNION {[1..k -> Names] : k \in 0..MaxInstances}

Next ==
    \/ \E arg \in WlArguments : Construct(arg)
    \/ \E v \in Names : AddVertex(v)
    \/ \E v \in Names : RemoveVertex(v)
    \/ \E u, v \in Names : AddEdge(u, v)
    \/ \E u, v \in Names : RemoveEdge(u, v)
    \/ RelabelCall
    \/ Extract
    \/ /\ Idle
       /\ \E v \in Names, n \in 1..MaxL :
             \E enum \in Enumerations(Predecessors(v)) :
                CreateLabelCall(v, n, enum)
    \/ \E v \in Names : InitStep(v)
    \/ /\ InPass("level")
       /\ \E v \in Names :
             \E enum \in Enumerations(Predecessors(v)) : LevelStep(v, enum)
    \/ \E v \in Names : InvStep(v)
    \/ \E instances \in InstanceLists : PassReturn(instances)
    \/ /\ InPass("done")
       /\ \E v \in Names, n \in 1..MaxL :
             \E enum \in Enumerations(Predecessors(v)) :
                CreateLabelReturn(v, n, enum)
    \/ /\ stack = <<>> /\ reads < MaxReads
       /\ \E instance \in Names :
             \E walks \in WalkLists(instance) :
                ExtractInstance(instance, walks)
    \/ \E v \in Names, n \in 0..(MaxL + 1) : LabelOf(v, n)

Spec == Init /\ [][Next]_vars

(***************************************************************************)
(* Reference definitions for the properties                                *)
(***************************************************************************)
\* the elements of S in strictly ascending order
Ascending(S) ==
    CHOOSE q \in [1..Cardinality(S) -> S] :
        \A i, j \in DOMAIN q : i < j => StrLess(q[i], q[j])

Levels == 0..wl_iterations

Absent(lm, name, level) ==
    name \notin DOMAIN lm \/ level \notin DOMAIN lm[name]

\* the Weisfeiler-Lehman label of v at level n in the graph as it is
RECURSIVE WL(_, _)
WL(v, n) ==
    IF n = 0 THEN v
    ELSE Md5Str(WL(v, n - 1) \o <<Dash>>
                \o Join(Ascending({WL(u, n - 1) : u \in Predecessors(v)}), Dash))

\* a pass of a freshly constructed engine over the graph as it is, by the
\* steps of _weisfeiler_lehman
RECURSIVE FreshInit(_, _)
FreshInit(t, todo) ==
    IF todo = {} THEN t
    ELSE LET v == CHOOSE x \in todo : TRUE
         IN FreshInit([lm |-> InitLabel(t.lm, v), inv |-> InitInverse(t.inv, v)],
                      todo \ {v})

RECURSIVE FreshLevel(_, _, _)
FreshLevel(t, n, todo) ==
    IF todo = {} THEN t
    ELSE LET v == CHOOSE x \in todo : TRUE
             enum == CHOOSE q \in Enumerations(Predecessors(v)) : TRUE
             cl == CreateLabel(t.lm, enum, v, n)
         IN FreshLevel([t EXCEPT !.lm = DictSet(cl.map, v,
                                                DictSet(cl.map[v], n, Md5Str(cl.val)))],
                       n, todo \ {v})

RECURSIVE FreshLevels(_, _)
FreshLevels(t, n) ==
    IF n > wl_iterations THEN t
    ELSE FreshLevels(FreshLevel(t, n, vertices), n + 1)

RECURSIVE FreshInv(_, _)
FreshInv(t, todo) ==
    IF todo = {} THEN t
    ELSE LET v == CHOOSE x \in todo : TRUE
         IN FreshInv([t EXCEPT !.inv = BuildInverse(t.inv, t.lm, v)], todo \ {v})

FreshTables ==
    FreshInv(FreshLevels(FreshInit(NoSnap, vertices), 1), vertices)

AfterRelabel == relabeled /\ stack = <<>>

(***************************************************************************)
(* C1.  After the latest relabel(graph), with graph mutations and relabel  *)
(* calls in any order before it, both tables equal the tables a freshly    *)
(* constructed engine produces for the graph: nothing survives from an     *)
(* earlier pass.                                                           *)
(***************************************************************************)
RebuiltInFull ==
    (AfterRelabel /\ reads = 0 /\ wl_iterations >= 1) =>
        /\ label_map = FreshTables.lm
        /\ inv_label_map = FreshTables.inv

(***************************************************************************)
(* C2.  relabel is idempotent: a second pass in a row, with no graph       *)
(* mutation and no other call in between, leaves the Label Table and the   *)
(* Inverse Label Table as the first pass left them.                        *)
(***************************************************************************)
RelabelIdempotent ==
    (rowCount = 2 /\ stack = <<>>) =>
        /\ label_map = snap.lm
        /\ inv_label_map = snap.inv

RelabelledTwice ==
    /\ rowCount = 2 /\ stack = <<>>
    /\ wl_iterations >= 2
    /\ \E e \in edges : e[1] # e[2]

(***************************************************************************)
(* C3.  After relabel(graph) every vertex v of the graph has               *)
(* label(v, 0) = v.name and, for n in 1..L, label(v, n) = the digest of    *)
(* label(v, n-1), "-", and the predecessors' level-(n-1) labels without    *)
(* duplicates, in ascending order, joined by "-" (nothing after the "-"    *)
(* for a vertex without predecessors).                                     *)
(***************************************************************************)
WLRecurrence ==
    AfterRelabel =>
        \A v \in vertices :
            /\ ~Absent(label_map, v, 0)
            /\ label_map[v][0] = v
            /\ \A n \in 1..wl_iterations :
                  /\ ~Absent(label_map, v, n)
                  /\ label_map[v][n] =
                        Md5Str(label_map[v][n - 1] \o <<Dash>>
                               \o Join(Ascending({label_map[u][n - 1] :
                                                    u \in Predecessors(v)}),
                                       Dash))

RelabelledTwoPredecessors ==
    /\ AfterRelabel
    /\ wl_iterations >= 2
    /\ \E v \in vertices : Cardinality(Predecessors(v)) >= 2
    /\ \E v \in vertices : Predecessors(v) = {}

(***************************************************************************)
(* C4.  The canonical walks _extract returns for raw walks Ws are exactly  *)
(* { c(w, n) : w in Ws, n in 0..L }, where c(w, n) is as long as w, equals *)
(* the hop's name at position 0 and at every odd position, and             *)
(* label(hop, n) at every even position > 0.                               *)
(***************************************************************************)
Canonical(w, n) ==
    [j \in 1..Len(w) |->
        IF j = 1 \/ j % 2 = 0 THEN w[j] ELSE label_map[w[j]][n]]

CanonicalWalksExact ==
    (outcome.op = "_extract" /\ outcome.status = "ok") =>
        /\ outcome.result =
              {Canonical(outcome.walks[i], n) : i \in DOMAIN outcome.walks,
                                                n \in Levels}
        /\ \A c \in outcome.result :
              \E i \in DOMAIN outcome.walks :
                  /\ Len(c) = Len(outcome.walks[i])
                  /\ \A j \in DOMAIN c :
                        (j = 1 \/ j % 2 = 0) => c[j] = outcome.walks[i][j]

ExtractedLongWalk ==
    /\ outcome.op = "_extract" /\ outcome.status = "ok"
    /\ \E i \in DOMAIN outcome.walks : Len(outcome.walks[i]) >= 3
    /\ Cardinality(outcome.result) >= 3

(***************************************************************************)
(* C5.  An engine is never constructed with a refinement-level count       *)
(* L <= 0: no engine with L <= 0 reaches relabel or extract.               *)
(***************************************************************************)
NonPositiveRejected == constructed => wl_iterations >= 1

(***************************************************************************)
(* C6.  A lookup of a vertex/level combination that is absent from the     *)
(* Label Table raises a lookup error and yields no label, for a single     *)
(* lookup and for _extract on a walk with such a hop at an even            *)
(* position > 0.                                                           *)
(***************************************************************************)
AbsentHop(lm, walks) ==
    \E i \in DOMAIN walks : \E j \in DOMAIN walks[i] : \E n \in Levels :
        j > 1 /\ j % 2 = 1 /\ Absent(lm, walks[i][j], n)

LookupErrorSurfaced ==
    [][/\ (outcome'.op = "label_of"
           /\ Absent(label_map, outcome'.name, outcome'.level))
          => (outcome'.status = "KeyError" /\ outcome'.label = <<>>)
       /\ (outcome'.op = "_extract" /\ AbsentHop(label_map, outcome'.walks))
          => (outcome'.status = "KeyError" /\ outcome'.result = {})]_vars

ExtractRaised ==
    /\ outcome.op = "_extract" /\ outcome.status = "KeyError"
    /\ wl_iterations >= 1

(***************************************************************************)
(* C7.  _extract and a label lookup leave the Label Table as it was,       *)
(* whether they succeed or raise a lookup error.                           *)
(***************************************************************************)
ReadersLeaveLabelTable ==
    [][outcome'.op \in {"_extract", "label_of"} => label_map' = label_map]_vars

(***************************************************************************)
(* C8.  After relabel(graph) on a fresh engine the Inverse Label Table of  *)
(* every vertex v has exactly the labels label(v, 0..L) as keys, each      *)
(* mapped to its level, and nothing else.                                  *)
(***************************************************************************)
InverseOf(labels) ==
    [key \in {StrAny(labels[n]) : n \in DOMAIN labels} |->
        IntAny(CHOOSE n \in DOMAIN labels : StrAny(labels[n]) = key)]

InverseExact ==
    (AfterRelabel /\ freshPass) =>
        \A v \in vertices :
            /\ v \in DOMAIN inv_label_map
            /\ inv_label_map[v] = InverseOf(label_map[v])

(***************************************************************************)
(* C9.  Within a pass the levels are taken in increasing order; the label  *)
(* of level n is built only from level-(n-1) labels this pass has already  *)
(* written for every vertex, and whatever the order of the vertices within *)
(* a level, the labels are those of the Weisfeiler-Lehman recurrence.      *)
(***************************************************************************)
Finalized(f, u, k) == <<u, k>> \in f.written /\ label_map[u][k] = WL(u, k)

LevelByLevel ==
    stack # <<>> =>
        LET f == Top
        IN /\ f.phase = "level" =>
                 \A u \in vertices :
                     /\ \A k \in 0..(f.n - 1) : Finalized(f, u, k)
                     /\ u \notin f.todo => Finalized(f, u, f.n)
           /\ f.phase \in {"inv", "done"} =>
                 \A u \in vertices : \A k \in Levels : Finalized(f, u, k)
           /\ lastStep # NoStep =>
                 /\ lastStep.n <= f.n
                 /\ lastStep.reads \subseteq f.written
                 /\ \A r \in lastStep.reads :
                       /\ r[2] = lastStep.n - 1
                       /\ r[1] \in Predecessors(lastStep.v) \cup {lastStep.v}

MidLevel ==
    /\ stack # <<>> /\ Top.phase = "level" /\ Top.n = 2
    /\ Top.todo # {} /\ Top.todo # vertices
    /\ lastStep # NoStep /\ Cardinality(lastStep.reads) >= 2

(***************************************************************************)
(* C10.  A pass over any finite graph, cyclic or empty, ends: while it is   *)
(* in progress it can take a step, and every step lowers the number of     *)
(* loop iterations left.  It makes one pass over the vertex set per level  *)
(* 1..L and no more, and it never re-enters itself through the lazy        *)
(* trigger of _create_label.                                               *)
(***************************************************************************)
PassCount == Cardinality(1..wl_iterations)

\* the loops of lines 84, 88-89 and 94 are numbered 0, 1..L, L + 1
LoopIndex(f) ==
    IF f.phase = "init" THEN 0
    ELSE IF f.phase = "level" THEN f.n
    ELSE IF f.phase = "inv" THEN PassCount + 1
    ELSE PassCount + 2

\* the loop iterations a pass has left, at most
Rank(f) ==
    (PassCount + 2 - LoopIndex(f)) * (Cardinality(vertices) + 1)
    + Cardinality(f.todo)

\* the pass can take a step: it returns, or a vertex is left in its loop
CanStep(f) == f.phase = "done" \/ (f.todo # {} /\ f.todo \subseteq vertices)

FixedNumberOfPasses ==
    /\ [](Len(stack) <= 1)
    /\ [](\A i \in DOMAIN stack :
             /\ stack[i].passes <= PassCount
             /\ stack[i].phase \in {"inv", "done"} => stack[i].passes = PassCount
             /\ CanStep(stack[i])
             /\ Rank(stack[i]) >= 0)
    /\ [](outcome.op = "_weisfeiler_lehman" =>
             outcome.status = "ok" /\ outcome.passes = PassCount)
    /\ [][(stack # <<>> /\ stack' # <<>>) => Rank(stack'[1]) < Rank(stack[1])]_vars

CyclicGraphRelabelled ==
    /\ outcome.op = "_weisfeiler_lehman" /\ outcome.status = "ok"
    /\ outcome.passes = 2
    /\ \E u, v \in vertices : u # v /\ <<u, v>> \in edges /\ <<v, u>> \in edges

====
